---------------------------- MODULE Spec2Model ----------------------------
(***************************************************************************)
(* google-drive-io: path based access to Google Drive (src/index.ts).      *)
(*                                                                         *)
(* The file holds the library twice: the async variant (lines 1-191) and   *)
(* the legacy callback variant (lines 193-407).  Both are modelled; the    *)
(* variable `variant` says which one a behaviour runs.                     *)
(*                                                                         *)
(* A path is a sequence of one-character strings, so that splitting,       *)
(* dirname and basename are computed on characters as the code does.       *)
(* The remote service is a set of objects; every remote call (get, list,   *)
(* create) is answered in one step, with success or with a failure.        *)
(***************************************************************************)
EXTENDS Integers, Sequences, FiniteSets, TLC

\* ------------------------------------------------------------------ bounds

\* Longest path offered to a call, in segments.
MaxDepth == 2

\* Remote calls that may fail in one behaviour.
MaxFail == 1

\* Remote calls that may fail in one behaviour of an outage.
MaxOutage == 8

\* ------------------------------------------------------------------ state

VARIABLES
    variant,    \* "async" (lines 1-191) or "legacy" (lines 193-407)
    objs,       \* the remote namespace: the objects the service holds
    nextId,     \* the id the service gives the next created object
    mayFail,    \* remote calls that may still fail
    call,       \* per caller: the exported operation it called, with its arguments
    stack,      \* per caller: the functions awaiting a result, innermost last
    ret,        \* per caller: the value or error just returned to the innermost
    pre,        \* per caller: the remote namespace when the call was made
    hist,       \* per caller: the calls it has finished, with their outcomes
    log         \* the remote calls answered and the warnings printed, in order

vars == <<variant, objs, nextId, mayFail, call, stack, ret, pre, hist, log>>

\* ------------------------------------------------------------------ paths

Sep == "/"

\* childPath / tail when there is no remaining path (undefined, null).
Undefined == <<"undefined">>

RECURSIVE SplitFrom(_, _, _)
\* String.prototype.split(path.sep): the pieces between separators, empty
\* pieces kept. acc is the piece being read, i the next character.
SplitFrom(p, i, acc) ==
    IF i > Len(p) THEN <<acc>>
    ELSE IF p[i] = Sep THEN <<acc>> \o SplitFrom(p, i + 1, <<>>)
    ELSE SplitFrom(p, i + 1, Append(acc, p[i]))

Split(p) == SplitFrom(p, 1, <<>>)

RECURSIVE Join(_)
\* Array.prototype.join(path.sep)
Join(parts) ==
    IF Len(parts) = 0 THEN <<>>
    ELSE IF Len(parts) = 1 THEN parts[1]
    ELSE parts[1] \o <<Sep>> \o Join(Tail(parts))

\* A split that loses the remaining path.
splitPathNoTail(filePath) ==
    [head |-> Split(filePath)[1], tail |-> Undefined]

\* _splitPath of the async variant: tail is undefined when nothing remains.
splitPath(filePath) ==
    LET parts == Split(filePath)
        head == parts[1]
        tailArr == Tail(parts)
    IN  [head |-> head,
         tail |-> IF Len(tailArr) # 0 THEN Join(tailArr) ELSE Undefined]

\* _splitPath of the legacy variant: tail is null when nothing remains.
splitPathLegacy(filePath) ==
    LET parts == Split(filePath)
        head == Head(parts)
        tailArr == Tail(parts)
    IN  [head |-> head,
         tail |-> IF Len(tailArr) # 0 THEN Join(tailArr) ELSE Undefined]

\* Positions of p holding a character other than the separator.
NonSep(p) == {j \in 1..Len(p) : p[j] # Sep}

Max(S) == CHOOSE x \in S : \A y \in S : y <= x

\* path.dirname (posix): scanning from the end, the first separator met
\* after a non-separator character ends the directory part.
dirname(p) ==
    LET hasRoot == Len(p) > 0 /\ p[1] = Sep
        cut == {i \in 2..Len(p) : p[i] = Sep /\ \E j \in NonSep(p) : j > i}
    IN  IF Len(p) = 0 THEN <<".">>
        ELSE IF cut = {} THEN (IF hasRoot THEN <<Sep>> ELSE <<".">>)
        ELSE IF hasRoot /\ Max(cut) = 2 THEN <<Sep, Sep>>
        ELSE SubSeq(p, 1, Max(cut) - 1)

\* path.basename (posix, no extension): the last run of non-separator
\* characters, trailing separators dropped.
basename(p) ==
    LET end == IF NonSep(p) = {} THEN 0 ELSE Max(NonSep(p))
        seps == {i \in 1..Len(p) : p[i] = Sep /\ i < end}
        start == IF seps = {} THEN 1 ELSE Max(seps) + 1
    IN  IF end = 0 THEN <<>> ELSE SubSeq(p, start, end)

\* ------------------------------------------------------------------ remote service

RootId == 0

\* What drive.files.get answers for fileId 'root'.
Root == [id |-> RootId, name |-> <<"r">>, parent |-> -1, folder |-> TRUE,
         trashed |-> FALSE]

NoDesc == [id |-> -1, name |-> <<>>, parent |-> -1, folder |-> FALSE,
           trashed |-> FALSE]

Obj(id, name, parent, folder, trashed) ==
    [id |-> id, name |-> name, parent |-> parent, folder |-> folder,
     trashed |-> trashed]

\* The objects a behaviour may start with: two folders "a" under the root,
\* a folder "b" and a file "b" in the first, a trashed folder "b" under the
\* root.  Names of remote objects are not empty.
Universe ==
    { Obj(1, <<"a">>, RootId, TRUE, FALSE),
      Obj(2, <<"a">>, RootId, TRUE, FALSE),
      Obj(3, <<"b">>, 1, TRUE, FALSE),
      Obj(4, <<"b">>, 1, FALSE, FALSE),
      Obj(5, <<"b">>, RootId, TRUE, TRUE) }

FirstFreeId == Cardinality(Universe) + 1

\* Every object lies in the root or in a folder that is there too.
ParentClosed(S) ==
    \A o \in S : o.parent = RootId \/ \E q \in S : q.id = o.parent /\ q.folder

\* drive.files.list: the children of parentId with that name that are not
\* trashed, folders only when the query carries the mimeType clause.
Matches(S, parentId, name, folderOnly) ==
    {o \in S : /\ o.parent = parentId
               /\ o.name = name
               /\ (folderOnly => o.folder)
               /\ ~o.trashed}

\* The orders the service may return a set of matches in.
Orders(S) ==
    {f \in [1..Cardinality(S) -> S] : \A i, j \in 1..Cardinality(S) : f[i] = f[j] => i = j}

Ids(files) == [i \in 1..Len(files) |-> files[i].id]

\* ------------------------------------------------------------------ values

None == [kind |-> "none", val |-> NoDesc, what |-> "", name |-> <<>>]

\* A resource object handed to the caller / the awaiting function.
Val(d) == [kind |-> "val", val |-> d, what |-> "", name |-> <<>>]

\* callback(null, undefined)
Undef == [kind |-> "undef", val |-> NoDesc, what |-> "", name |-> <<>>]

\* new Error(`Folder ${head} not found`) / new Error(`File ${filePath} not found`)
NotFound(what, name) == [kind |-> "err", val |-> NoDesc, what |-> what, name |-> name]

\* The error of a remote call that failed.
RemoteError == [kind |-> "err", val |-> NoDesc, what |-> "remote", name |-> <<>>]

\* TypeError thrown inside a callback: nobody is called back.
Crash == [kind |-> "crash", val |-> NoDesc, what |-> "TypeError", name |-> <<>>]

Frame(fn, path, local, parent) ==
    [fn |-> fn, path |-> path, local |-> local, parent |-> parent]

Entry(c, op, parentId, name, folderOnly, files, ok) ==
    [c |-> c, n |-> Len(hist[c]) + 1, op |-> op, parent |-> parentId, name |-> name,
     folderOnly |-> folderOnly, files |-> files, ok |-> ok]

Top(st) == st[Len(st)]

Pop(st) == SubSeq(st, 1, Len(st) - 1)

\* ------------------------------------------------------------------ the library

Callers == {1, 2}

Segs == {<<"a">>, <<"b">>, <<>>}

\* The paths offered to a call: "." and every join of 1..MaxDepth segments,
\* empty segments included ("/" is the join of two empty segments).
Paths ==
    {<<".">>} \cup
    UNION {{Join(parts) : parts \in [1..n -> Segs]} : n \in 1..MaxDepth}

\* The local file offered to an upload: its base name is "b".
Locals == {<<"a", "/", "b">>}

Ops == {"getRootFolder", "getFolder", "getFile", "createFolder", "createFolderIfNotExists",
        "uploadFile", "uploadFileIfNotExists"}

NoCall == [fn |-> "none", path |-> <<>>, local |-> <<>>]

\* getFolder up to its first await: the get of the root is pending.
EnterGetFolder(folderPath) ==
    <<Frame("getFolder", folderPath, <<>>, NoDesc)>>

\* A getFile that looks the whole path up as a folder.
EnterGetFileWholePath(filePath) ==
    <<Frame("getFile", filePath, <<>>, NoDesc)>> \o EnterGetFolder(filePath)

\* getFile up to its first await: getFolder(dirname) is running.
EnterGetFile(filePath) ==
    <<Frame("getFile", filePath, <<>>, NoDesc)>> \o EnterGetFolder(dirname(filePath))

\* createFolderIfNotExists up to its first await: getFolder is running.
EnterCreateFolderIfNotExists(folderPath) ==
    <<Frame("createFolderIfNotExists", folderPath, <<>>, NoDesc)>>
        \o EnterGetFolder(folderPath)

\* createFolder up to its first await: createFolderIfNotExists(dirname) is running.
EnterCreateFolder(folderPath) ==
    <<Frame("createFolder", folderPath, <<>>, NoDesc)>>
        \o EnterCreateFolderIfNotExists(dirname(folderPath))

\* uploadFile up to its first await.
EnterUploadFile(filePath, uploadPath) ==
    <<Frame("uploadFile", uploadPath, filePath, NoDesc)>>
        \o EnterCreateFolderIfNotExists(dirname(uploadPath))

\* uploadFileIfNotExists up to its first await: getFile is running.
EnterUploadFileIfNotExists(filePath, uploadPath) ==
    <<Frame("uploadFileIfNotExists", uploadPath, filePath, NoDesc)>>
        \o EnterGetFile(uploadPath)

\* Calls in which getFolder creates the folder it does not find.
EnterGetFolderCreates(fn, path, local) ==
    CASE fn = "getRootFolder" -> <<Frame("getRootFolder", path, <<>>, NoDesc)>>
      [] fn = "getFolder" -> EnterCreateFolderIfNotExists(path)
      [] fn = "getFile" -> EnterGetFile(path)
      [] fn = "createFolder" -> EnterCreateFolder(path)
      [] fn = "createFolderIfNotExists" -> EnterCreateFolderIfNotExists(path)
      [] fn = "uploadFile" -> EnterUploadFile(local, path)
      [] fn = "uploadFileIfNotExists" -> EnterUploadFileIfNotExists(local, path)

Enter(fn, path, local) ==
    CASE fn = "getRootFolder" -> <<Frame("getRootFolder", path, <<>>, NoDesc)>>
      [] fn = "getFolder" -> EnterGetFolder(path)
      [] fn = "getFile" -> EnterGetFile(path)
      [] fn = "createFolder" -> EnterCreateFolder(path)
      [] fn = "createFolderIfNotExists" -> EnterCreateFolderIfNotExists(path)
      [] fn = "uploadFile" -> EnterUploadFile(local, path)
      [] fn = "uploadFileIfNotExists" -> EnterUploadFileIfNotExists(local, path)

\* The result of a step of caller c: its stack and the value in flight.
Res(st, r) == [stack |-> st, ret |-> r]

\* return / throw / callback(...): the innermost function ends with r.
Return(st, r) == Res(Pop(st), r)

\* The base case of _getFolderRecursive: childPath === undefined in the
\* async variant, _.isEmpty(childPath) in the legacy one.
IsBase(v, childPath) ==
    IF v = "async" THEN childPath = Undefined
    ELSE childPath = Undefined \/ childPath = <<>>

\* _getFolderRecursive(parent, childPath, ...) up to its await: the base
\* case returns parent, otherwise the list query for the head is pending.
Descend(v, st, parent, childPath) ==
    IF IsBase(v, childPath) THEN Return(st, Val(parent))
    ELSE Res(Append(Pop(st), Frame("_getFolderRecursive", childPath, <<>>, parent)),
             None)

\* A root test that knows "." only.
IsRootPathDotOnly(folderPath) == folderPath = <<".">>

\* getFolder's test for the root folder.
IsRootPath(folderPath) == folderPath = <<".">> \/ folderPath = <<"/">>

\* The last match instead of the first.
Last(files) == files[Len(files)]

\* res.data.files[0]
First(files) == files[1]

\* The condition of console.warn.
HasDuplicates(files) == Len(files) > 1

Split2(v, childPath) ==
    IF v = "async" THEN splitPath(childPath) ELSE splitPathLegacy(childPath)

Idle(c) == call[c].fn = "none"

Running(c) == stack[c] # <<>>

Finished(c) == ~Idle(c) /\ ~Running(c)

\* A caller calls an exported function.
Start(c, fn, path, local) ==
    /\ Idle(c)
    /\ call' = [call EXCEPT ![c] = [fn |-> fn, path |-> path, local |-> local]]
    /\ stack' = [stack EXCEPT ![c] = Enter(fn, path, local)]
    /\ ret' = [ret EXCEPT ![c] = None]
    /\ pre' = [pre EXCEPT ![c] = objs]
    /\ UNCHANGED <<variant, objs, nextId, mayFail, hist, log>>

Call(c) ==
    /\ Idle(c)
    /\ \E fn \in Ops, path \in Paths, local \in Locals :
        /\ fn = "getRootFolder" => path = <<".">>
        /\ Start(c, fn, path,
                 IF fn \in {"uploadFile", "uploadFileIfNotExists"} THEN local ELSE <<>>)

\* getRootFolder called by the caller itself: the get answers.
getRootFolder(c) ==
    /\ Running(c)
    /\ Top(stack[c]).fn = "getRootFolder"
    /\ \E ok \in BOOLEAN :
          /\ ~ok => mayFail > 0
          /\ mayFail' = IF ok THEN mayFail ELSE mayFail - 1
          /\ log' = Append(log, Entry(c, "get", RootId, <<>>, FALSE, <<>>, ok))
          /\ stack' = [stack EXCEPT ![c] = Pop(stack[c])]
          /\ ret' = [ret EXCEPT ![c] = IF ok THEN Val(Root) ELSE RemoteError]
    /\ UNCHANGED <<variant, objs, nextId, call, pre, hist>>

\* getRootFolder answers, and getFolder goes on to its return or to the
\* first list query.
getFolder(c) ==
    /\ Running(c)
    /\ Top(stack[c]).fn = "getFolder"
    /\ LET f == Top(stack[c]) IN
       \E ok \in BOOLEAN :
          /\ ~ok => mayFail > 0
          /\ mayFail' = IF ok THEN mayFail ELSE mayFail - 1
          /\ log' = Append(log, Entry(c, "get", RootId, <<>>, FALSE, <<>>, ok))
          /\ LET r == IF ~ok THEN Return(stack[c], RemoteError)
                      ELSE IF IsRootPath(f.path) THEN Return(stack[c], Val(Root))
                      ELSE Descend(variant, stack[c], Root, f.path)
             IN  /\ stack' = [stack EXCEPT ![c] = r.stack]
                 /\ ret' = [ret EXCEPT ![c] = r.ret]
    /\ UNCHANGED <<variant, objs, nextId, call, pre, hist>>

\* The log after a list query answered files, with the warning when the
\* code prints one.
Listed(c, parentId, name, folderOnly, files) ==
    LET l == Append(log, Entry(c, "list", parentId, name, folderOnly, Ids(files), TRUE))
    IN  IF HasDuplicates(files)
        THEN Append(l, Entry(c, "warn", parentId, name, folderOnly, Ids(files), TRUE))
        ELSE l

\* A list query that leaves the walk with the folder it has reached.
AfterListBestEffort(v, st, sp, files) ==
    IF Len(files) = 0 THEN Return(st, Val(Top(st).parent))
    ELSE Descend(v, st, First(files), sp.tail)

\* _getFolderRecursive after its list query answered files: no match throws
\* "Folder <head> not found", otherwise the first match is the new parent.
AfterList(v, st, sp, files) ==
    IF Len(files) = 0 THEN Return(st, NotFound("Folder", sp.head))
    ELSE Descend(v, st, First(files), sp.tail)

\* The list query of _getFolderRecursive answers.
getFolderRecursive(c) ==
    /\ Running(c)
    /\ Top(stack[c]).fn = "_getFolderRecursive"
    /\ LET f == Top(stack[c])
           sp == Split2(variant, f.path)
       IN
       \/ /\ mayFail > 0
          /\ mayFail' = mayFail - 1
          /\ log' = Append(log, Entry(c, "list", f.parent.id, sp.head, TRUE, <<>>, FALSE))
          /\ stack' = [stack EXCEPT ![c] = Pop(stack[c])]
          /\ ret' = [ret EXCEPT ![c] = RemoteError]
       \/ \E files \in Orders(Matches(objs, f.parent.id, sp.head, TRUE)) :
          /\ mayFail' = mayFail
          /\ log' = Listed(c, f.parent.id, sp.head, TRUE, files)
          /\ LET r == AfterList(variant, stack[c], sp, files)
             IN  /\ stack' = [stack EXCEPT ![c] = r.stack]
                 /\ ret' = [ret EXCEPT ![c] = r.ret]
    /\ UNCHANGED <<variant, objs, nextId, call, pre, hist>>

\* getFolder(dirname) has returned to getFile: its error is passed on,
\* otherwise the list query for the base name is made and answers.
getFile(c) ==
    /\ Running(c)
    /\ Top(stack[c]).fn = "getFile"
    /\ ret[c].kind # "none"
    /\ LET f == Top(stack[c])
           parentFolder == ret[c].val
           childPath == basename(f.path)
       IN
       \/ /\ ret[c].kind = "err"
          /\ stack' = [stack EXCEPT ![c] = Pop(stack[c])]
          /\ UNCHANGED <<ret, mayFail, log>>
       \/ /\ ret[c].kind = "val"
          /\ mayFail > 0
          /\ mayFail' = mayFail - 1
          /\ log' = Append(log, Entry(c, "list", parentFolder.id, childPath, FALSE, <<>>, FALSE))
          /\ stack' = [stack EXCEPT ![c] = Pop(stack[c])]
          /\ ret' = [ret EXCEPT ![c] = RemoteError]
       \/ /\ ret[c].kind = "val"
          /\ \E files \in Orders(Matches(objs, parentFolder.id, childPath, FALSE)) :
             /\ mayFail' = mayFail
             /\ log' = Listed(c, parentFolder.id, childPath, FALSE, files)
             /\ stack' = [stack EXCEPT ![c] = Pop(stack[c])]
             /\ ret' = [ret EXCEPT ![c] =
                          IF Len(files) = 0 THEN NotFound("File", f.path)
                          ELSE Val(First(files))]
    /\ UNCHANGED <<variant, objs, nextId, call, pre, hist>>

\* What createFolder hands back after drive.files.create answered d:
\* res.data in the async variant, res.folder (no such field) in the legacy one.
CreateFolderResult(v, d) == IF v = "async" THEN Val(d) ELSE Undef

\* createFolderIfNotExists(dirname) has returned to createFolder / uploadFile:
\* its error is passed on, otherwise the create call for the object d is made
\* and answers, and result is handed back.  parentFolder.id of an undefined
\* parentFolder throws inside the callback.
CreateUnder(c, d, result) ==
    \/ /\ ret[c].kind = "err"
       /\ stack' = [stack EXCEPT ![c] = Pop(stack[c])]
       /\ UNCHANGED <<ret, mayFail, log, objs, nextId>>
    \/ /\ ret[c].kind = "undef"
       /\ stack' = [stack EXCEPT ![c] = <<>>]
       /\ ret' = [ret EXCEPT ![c] = Crash]
       /\ UNCHANGED <<mayFail, log, objs, nextId>>
    \/ /\ ret[c].kind = "val"
       /\ mayFail > 0
       /\ mayFail' = mayFail - 1
       /\ log' = Append(log, Entry(c, "create", d.parent, d.name, d.folder, <<>>, FALSE))
       /\ stack' = [stack EXCEPT ![c] = Pop(stack[c])]
       /\ ret' = [ret EXCEPT ![c] = RemoteError]
       /\ UNCHANGED <<objs, nextId>>
    \/ /\ ret[c].kind = "val"
       /\ objs' = objs \cup {d}
       /\ nextId' = nextId + 1
       /\ mayFail' = mayFail
       /\ log' = Append(log, Entry(c, "create", d.parent, d.name, d.folder, <<d.id>>, TRUE))
       /\ stack' = [stack EXCEPT ![c] = Pop(stack[c])]
       /\ ret' = [ret EXCEPT ![c] = result]

\* A createFolder that looks for the child first and hands back the one it finds.
createFolderChecked(c) ==
    /\ Running(c)
    /\ Top(stack[c]).fn = "createFolder"
    /\ ret[c].kind # "none"
    /\ LET parentFolder == ret[c].val
           childPath == basename(Top(stack[c]).path)
           d == Obj(nextId, childPath, parentFolder.id, TRUE, FALSE)
           there == Matches(objs, parentFolder.id, childPath, TRUE)
       IN  IF ret[c].kind = "val" /\ there # {}
           THEN /\ stack' = [stack EXCEPT ![c] = Pop(stack[c])]
                /\ ret' = [ret EXCEPT ![c] = Val(CHOOSE o \in there : TRUE)]
                /\ UNCHANGED <<mayFail, log, objs, nextId>>
           ELSE CreateUnder(c, d, CreateFolderResult(variant, d))
    /\ UNCHANGED <<variant, call, pre, hist>>

\* createFolderIfNotExists(dirname) has returned to createFolder.
createFolder(c) ==
    /\ Running(c)
    /\ Top(stack[c]).fn = "createFolder"
    /\ ret[c].kind # "none"
    /\ LET parentFolder == ret[c].val
           childPath == basename(Top(stack[c]).path)
           d == Obj(nextId, childPath, parentFolder.id, TRUE, FALSE)
       IN  CreateUnder(c, d, CreateFolderResult(variant, d))
    /\ UNCHANGED <<variant, call, pre, hist>>

\* createFolderIfNotExists(dirname) has returned to uploadFile.
uploadFile(c) ==
    /\ Running(c)
    /\ Top(stack[c]).fn = "uploadFile"
    /\ ret[c].kind # "none"
    /\ LET parentFolder == ret[c].val
           d == Obj(nextId, basename(Top(stack[c]).local), parentFolder.id, FALSE, FALSE)
       IN  CreateUnder(c, d, Val(d))
    /\ UNCHANGED <<variant, call, pre, hist>>

\* An "if not exists" function that takes only the root as existing.
IfNotExistsBelowRoot(v, r) ==
    IF v = "async" /\ r.kind = "err" THEN "throw"
    ELSE IF r.kind = "val" /\ r.val.id = RootId THEN "return"
    ELSE "act"

\* What an "if not exists" function does with the outcome r of its lookup:
\* "return" it, "throw" it on, or "act" (create, upload).  The async variant
\* awaits the lookup, so its error is thrown past the test; the legacy
\* callback tests only the folder / file it got.
IfNotExists(v, r) ==
    IF v = "async" /\ r.kind = "err" THEN "throw"
    ELSE IF r.kind = "val" THEN "return"
    ELSE "act"

\* getFolder has returned to createFolderIfNotExists.
createFolderIfNotExists(c) ==
    /\ Running(c)
    /\ Top(stack[c]).fn = "createFolderIfNotExists"
    /\ ret[c].kind # "none"
    /\ LET f == Top(stack[c])
           todo == IfNotExists(variant, ret[c])
       IN  IF todo = "act"
           THEN /\ stack' = [stack EXCEPT ![c] = Pop(stack[c]) \o EnterCreateFolder(f.path)]
                /\ ret' = [ret EXCEPT ![c] = None]
           ELSE /\ stack' = [stack EXCEPT ![c] = Pop(stack[c])]
                /\ UNCHANGED ret
    /\ UNCHANGED <<variant, objs, nextId, mayFail, call, pre, hist, log>>

\* getFile has returned to uploadFileIfNotExists.
uploadFileIfNotExists(c) ==
    /\ Running(c)
    /\ Top(stack[c]).fn = "uploadFileIfNotExists"
    /\ ret[c].kind # "none"
    /\ LET f == Top(stack[c])
           todo == IfNotExists(variant, ret[c])
       IN  IF todo = "act"
           THEN /\ stack' = [stack EXCEPT ![c] = Pop(stack[c]) \o EnterUploadFile(f.local, f.path)]
                /\ ret' = [ret EXCEPT ![c] = None]
           ELSE /\ stack' = [stack EXCEPT ![c] = Pop(stack[c])]
                /\ UNCHANGED ret
    /\ UNCHANGED <<variant, objs, nextId, mayFail, call, pre, hist, log>>

\* ------------------------------------------------------------------ specifications

Init ==
    /\ variant \in {"async", "legacy"}
    /\ objs \in {S \in SUBSET Universe : ParentClosed(S)}
    /\ nextId = FirstFreeId
    /\ mayFail = MaxFail
    /\ call = [c \in Callers |-> NoCall]
    /\ stack = [c \in Callers |-> <<>>]
    /\ ret = [c \in Callers |-> None]
    /\ pre = [c \in Callers |-> {}]
    /\ hist = [c \in Callers |-> <<>>]
    /\ log = <<>>

Step(c) ==
    \/ getRootFolder(c)
    \/ getFolder(c)
    \/ getFolderRecursive(c)
    \/ getFile(c)
    \/ createFolder(c)
    \/ createFolderIfNotExists(c)
    \/ uploadFile(c)
    \/ uploadFileIfNotExists(c)

\* One caller makes one call of any exported function.
Next == Call(1) \/ Step(1)

Spec == Init /\ [][Next]_vars

\* The caller calls createFolder.
CallCreateFolder(c) ==
    /\ Idle(c)
    /\ \E path \in Paths : Start(c, "createFolder", path, <<>>)

\* Its createFolder has ended: the caller goes on to getFolder of the same path.
ThenGetFolder(c) ==
    /\ Finished(c)
    /\ call[c].fn = "createFolder"
    /\ hist' = [hist EXCEPT ![c] = Append(hist[c], [call |-> call[c], ret |-> ret[c], pre |-> pre[c]])]
    /\ call' = [call EXCEPT ![c] = [fn |-> "getFolder", path |-> call[c].path, local |-> <<>>]]
    /\ stack' = [stack EXCEPT ![c] = EnterGetFolder(call[c].path)]
    /\ ret' = [ret EXCEPT ![c] = None]
    /\ pre' = [pre EXCEPT ![c] = objs]
    /\ UNCHANGED <<variant, objs, nextId, mayFail, log>>

\* One caller: createFolder(p), then getFolder(p).
NextRoundTrip ==
    \/ CallCreateFolder(1)
    \/ ThenGetFolder(1)
    \/ getFolder(1)
    \/ getFolderRecursive(1)
    \/ createFolder(1)
    \/ createFolderIfNotExists(1)

SpecRoundTrip == Init /\ [][NextRoundTrip]_vars

\* A caller calls createFolderIfNotExists, on the path the other caller
\* has called it on if it has.
CallRace(c) ==
    /\ Idle(c)
    /\ \E path \in Paths :
        /\ \A i \in 1..Len(Split(path)) : Split(path)[i] # <<>>
        /\ \A d \in Callers : ~Idle(d) => call[d].path = path
        /\ Start(c, "createFolderIfNotExists", path, <<>>)

RaceStep(c) ==
    \/ CallRace(c)
    \/ getFolder(c)
    \/ getFolderRecursive(c)
    \/ createFolder(c)
    \/ createFolderIfNotExists(c)

\* Two callers, each calling createFolderIfNotExists once on the same path;
\* their remote calls are answered in any order.
NextRace == \E c \in Callers : RaceStep(c)

\* The race is run over the namespaces that hold the first folder "a" and
\* its folder "b" or not, with every remote call answering.
InitRace ==
    /\ variant \in {"async", "legacy"}
    /\ objs \in {S \in SUBSET {o \in Universe : o.id \in {1, 3}} : ParentClosed(S)}
    /\ nextId = FirstFreeId
    /\ mayFail = 0
    /\ call = [c \in Callers |-> NoCall]
    /\ stack = [c \in Callers |-> <<>>]
    /\ ret = [c \in Callers |-> None]
    /\ pre = [c \in Callers |-> {}]
    /\ hist = [c \in Callers |-> <<>>]
    /\ log = <<>>

SpecRace == InitRace /\ [][NextRace]_vars

\* An outage: remote call after remote call may fail, the get of the root
\* on every attempt, MaxOutage times in all.
InitOutage ==
    /\ variant \in {"async", "legacy"}
    /\ objs \in {S \in SUBSET Universe : ParentClosed(S)}
    /\ nextId = FirstFreeId
    /\ mayFail = MaxOutage
    /\ call = [c \in Callers |-> NoCall]
    /\ stack = [c \in Callers |-> <<>>]
    /\ ret = [c \in Callers |-> None]
    /\ pre = [c \in Callers |-> {}]
    /\ hist = [c \in Callers |-> <<>>]
    /\ log = <<>>

\* One caller makes one call of any exported function during an outage.
SpecOutage == InitOutage /\ [][Next]_vars

\* The caller calls uploadFileIfNotExists.
CallUploadFileIfNotExists(c) ==
    /\ Idle(c)
    /\ \E path \in Paths, local \in Locals :
          Start(c, "uploadFileIfNotExists", path, local)

\* Its first call has ended: the caller makes the same call again.
ThenAgain(c) ==
    /\ Finished(c)
    /\ Len(hist[c]) = 0
    /\ hist' = [hist EXCEPT ![c] = Append(hist[c], [call |-> call[c], ret |-> ret[c], pre |-> pre[c]])]
    /\ stack' = [stack EXCEPT ![c] = Enter(call[c].fn, call[c].path, call[c].local)]
    /\ ret' = [ret EXCEPT ![c] = None]
    /\ pre' = [pre EXCEPT ![c] = objs]
    /\ UNCHANGED <<variant, objs, nextId, mayFail, call, log>>

\* One caller: uploadFileIfNotExists(local, p), twice in sequence.
NextTwice ==
    \/ CallUploadFileIfNotExists(1)
    \/ ThenAgain(1)
    \/ getFolder(1)
    \/ getFolderRecursive(1)
    \/ getFile(1)
    \/ createFolder(1)
    \/ createFolderIfNotExists(1)
    \/ uploadFile(1)
    \/ uploadFileIfNotExists(1)

SpecTwice == Init /\ [][NextTwice]_vars

\* The caller calls getFolder.
CallGetFolder(c) ==
    /\ Idle(c)
    /\ \E path \in Paths : Start(c, "getFolder", path, <<>>)

\* getFolder of the async variant has ended: the caller calls getFolder of
\* the legacy variant on the same path.
ThenLegacy(c) ==
    /\ Finished(c)
    /\ variant = "async"
    /\ variant' = "legacy"
    /\ hist' = [hist EXCEPT ![c] = Append(hist[c], [call |-> call[c], ret |-> ret[c], pre |-> pre[c]])]
    /\ stack' = [stack EXCEPT ![c] = EnterGetFolder(call[c].path)]
    /\ ret' = [ret EXCEPT ![c] = None]
    /\ pre' = [pre EXCEPT ![c] = objs]
    /\ UNCHANGED <<objs, nextId, mayFail, call, log>>

\* One caller: getFolder(p) of the async variant, then of the legacy variant.
NextVariants ==
    \/ CallGetFolder(1)
    \/ ThenLegacy(1)
    \/ getFolder(1)
    \/ getFolderRecursive(1)

InitVariants ==
    /\ variant = "async"
    /\ objs \in {S \in SUBSET Universe : ParentClosed(S)}
    /\ nextId = FirstFreeId
    /\ mayFail = MaxFail
    /\ call = [c \in Callers |-> NoCall]
    /\ stack = [c \in Callers |-> <<>>]
    /\ ret = [c \in Callers |-> None]
    /\ pre = [c \in Callers |-> {}]
    /\ hist = [c \in Callers |-> <<>>]
    /\ log = <<>>

SpecVariants == InitVariants /\ [][NextVariants]_vars

\* ------------------------------------------------------------------ reading the log

\* No remote call has failed.
NoFailure == \A i \in 1..Len(log) : log[i].ok

\* The remote calls and warnings of caller c's current call, in order.
CurLog(c) == SelectSeq(log, LAMBDA e : e.c = c /\ e.n = Len(hist[c]) + 1)

OfOp(l, op) == SelectSeq(l, LAMBDA e : e.op = op)

Lists(c) == OfOp(CurLog(c), "list")

Creates(c) == OfOp(CurLog(c), "create")

Warnings(c) == OfOp(CurLog(c), "warn")

\* No remote call of caller c's current call has failed.
AllOk(c) == \A i \in 1..Len(CurLog(c)) : CurLog(c)[i].ok

RECURSIVE Resolvable(_, _, _)
\* Some chain of folders of S below parentId carries the names segs.
Resolvable(S, parentId, segs) ==
    \/ Len(segs) = 0
    \/ \E o \in Matches(S, parentId, segs[1], TRUE) : Resolvable(S, o.id, Tail(segs))

\* Caller 1 is in (or has finished) a call of fn.
Calls(fn) == call[1].fn = fn

\* ------------------------------------------------------------------ C1

\* C1: getFolder on a non-root path p = s1/.../sn issues its list queries in
\* segment order, the i-th filtering on the name si, on folders, and on the
\* parent id that query i-1 returned first (the root id for i = 1); when every
\* segment resolves the call ends after exactly n list queries with the
\* descriptor the n-th query returned.
C1_ResolveWalksEverySegment ==
    (Calls("getFolder") /\ call[1].path \notin {<<".">>, <<"/">>}) =>
        LET segs == Split(call[1].path)
            ls == Lists(1)
            n == Len(segs)
        IN  /\ Len(ls) <= n
            /\ \A i \in 1..Len(ls) :
                  /\ ls[i].name = segs[i]
                  /\ ls[i].folderOnly
                  /\ ls[i].parent = IF i = 1 THEN RootId ELSE ls[i - 1].files[1]
            /\ (/\ Finished(1)
                /\ AllOk(1)
                /\ Resolvable(pre[1], RootId, segs)
                /\ \A i \in 1..Len(ls) : Len(ls[i].files) > 0)
               => /\ Len(ls) = n
                  /\ ret[1].kind = "val"
                  /\ ret[1].val.id = ls[n].files[1]
                  /\ ret[1].val.name = segs[n]
                  /\ Len(OfOp(CurLog(1), "get")) = 1

\* A two-segment path has been resolved with two list queries.
C1_Witness ==
    /\ Calls("getFolder")
    /\ call[1].path = <<"a", "/", "b">>
    /\ Finished(1)
    /\ ret[1].kind = "val"
    /\ Len(Lists(1)) = 2
    /\ ret[1].val.name = <<"b">>

\* ------------------------------------------------------------------ C2

\* C2: getFolder(".") and getFolder("/") issue no list query, whatever the
\* remote namespace holds, and return the descriptor that the get of the
\* root id answered (the call fails only when that get fails).
C2_RootNeedsNoLookup ==
    (Calls("getFolder") /\ call[1].path \in {<<".">>, <<"/">>}) =>
        /\ Len(Lists(1)) = 0
        /\ Finished(1) =>
              /\ Len(CurLog(1)) = 1
              /\ CurLog(1)[1].op = "get"
              /\ CurLog(1)[1].parent = RootId
              /\ ret[1] = IF CurLog(1)[1].ok THEN Val(Root) ELSE RemoteError

\* getFolder("/") has returned the root over a namespace that holds folders.
C2_Witness ==
    /\ Calls("getFolder")
    /\ call[1].path = <<"/">>
    /\ Finished(1)
    /\ ret[1] = Val(Root)
    /\ objs # {}

\* ------------------------------------------------------------------ C3

\* C3: when a list query of getFolder answers no match, the call ends there
\* with the error "Folder <that segment> not found": the query is the last
\* remote call of the resolution and no descriptor is returned.
C3_MissingSegmentAborts ==
    Calls("getFolder") =>
        \A i \in 1..Len(CurLog(1)) :
            LET e == CurLog(1)[i] IN
            (e.op = "list" /\ e.ok /\ Len(e.files) = 0) =>
                /\ i = Len(CurLog(1))
                /\ Finished(1)
                /\ ret[1] = NotFound("Folder", e.name)
                /\ e.name = Split(call[1].path)[Len(Lists(1))]

\* The first segment of a two-segment path was missing: one list query only.
C3_Witness ==
    /\ Calls("getFolder")
    /\ call[1].path = <<"b", "/", "a">>
    /\ Finished(1)
    /\ ret[1] = NotFound("Folder", <<"b">>)
    /\ Len(Lists(1)) = 1
    /\ objs # {}

\* ------------------------------------------------------------------ C4

\* C4: a list query of getFolder that answers several matches does not fail
\* the resolution: the walk goes on below the first match (or returns it),
\* and exactly one warning is printed for that query, none for a query with
\* one match.
C4_DuplicatesWarnAndTakeFirst ==
    Calls("getFolder") =>
        LET l == CurLog(1)
            ls == Lists(1)
        IN  /\ \A i \in 1..Len(l) :
                  /\ l[i].op = "warn" =>
                        /\ i > 1
                        /\ l[i - 1].op = "list"
                        /\ l[i - 1].files = l[i].files
                        /\ l[i - 1].name = l[i].name
                        /\ Len(l[i].files) > 1
                  /\ (l[i].op = "list" /\ Len(l[i].files) > 1) =>
                        /\ i < Len(l)
                        /\ l[i + 1].op = "warn"
            /\ Len(Warnings(1)) = Cardinality({i \in 1..Len(ls) : Len(ls[i].files) > 1})
            /\ \A i \in 1..Len(ls) :
                  Len(ls[i].files) >= 1 =>
                      IF i < Len(ls) THEN ls[i + 1].parent = ls[i].files[1]
                      ELSE Finished(1) => ret[1].kind = "val" /\ ret[1].val.id = ls[i].files[1]

\* Two folders "a" were listed for the first segment and the walk went on to "b".
C4_Witness ==
    /\ Calls("getFolder")
    /\ call[1].path = <<"a", "/", "b">>
    /\ Finished(1)
    /\ ret[1].kind = "val"
    /\ Len(Lists(1)) = 2
    /\ Len(Lists(1)[1].files) = 2
    /\ Len(Warnings(1)) = 1

\* ------------------------------------------------------------------ C5 .. C8

\* The lookup that caller 1's call began with found its object: every remote
\* call answered, and every list query answered at least one match.
Found1 ==
    /\ AllOk(1)
    /\ \A i \in 1..Len(Lists(1)) : Len(Lists(1)[i].files) > 0

\* The lookup that caller 1's call began with ended in "not found": its last
\* list query answered no match, and nothing failed before it.
NotFoundAt(i) ==
    /\ i \in 1..Len(CurLog(1))
    /\ CurLog(1)[i].op = "list" /\ CurLog(1)[i].ok /\ Len(CurLog(1)[i].files) = 0
    /\ \A j \in 1..(i - 1) :
          /\ CurLog(1)[j].ok
          /\ CurLog(1)[j].op \in {"get", "list", "warn"}
          /\ CurLog(1)[j].op = "list" => Len(CurLog(1)[j].files) > 0

\* The lookup that caller 1's call began with failed in a remote call.
RemoteFailedAt(i) ==
    /\ i \in 1..Len(CurLog(1))
    /\ CurLog(1)[i].op \in {"get", "list"} /\ ~CurLog(1)[i].ok
    /\ \A j \in 1..(i - 1) :
          /\ CurLog(1)[j].ok
          /\ CurLog(1)[j].op \in {"get", "list", "warn"}
          /\ CurLog(1)[j].op = "list" => Len(CurLog(1)[j].files) > 0

\* The id getFolder's walk ended at: the first match of its last list query.
WalkedTo == IF Len(Lists(1)) = 0 THEN RootId ELSE Lists(1)[Len(Lists(1))].files[1]

\* C5: createFolderIfNotExists(p) whose lookup finds a folder at p issues no
\* create call, leaves the remote namespace as it was, and returns the
\* descriptor the lookup found.
C5_ExistingFolderIsReturned ==
    (Calls("createFolderIfNotExists") /\ Finished(1) /\ Found1) =>
        /\ Len(Creates(1)) = 0
        /\ objs = pre[1]
        /\ ret[1].kind = "val"
        /\ ret[1].val.id = WalkedTo
        /\ ret[1].val \in pre[1] \cup {Root}

\* createFolderIfNotExists("a/b") has returned the folder that was there.
C5_Witness ==
    /\ Calls("createFolderIfNotExists")
    /\ call[1].path = <<"a", "/", "b">>
    /\ Finished(1)
    /\ Found1
    /\ ret[1].kind = "val"
    /\ ret[1].val.name = <<"b">>
    /\ Len(Lists(1)) = 2

\* No two objects of S carry the same name under the same parent.
NoDuplicates(S) ==
    \A o, q \in S : (o.parent = q.parent /\ o.name = q.name) => o = q

\* Every segment of p is a name.
WellFormed(p) == \A i \in 1..Len(Split(p)) : Split(p)[i] # <<>>

\* The number of leading segments of segs that S resolves.
ExistingPrefix(S, segs) ==
    Max({k \in 0..Len(segs) : Resolvable(S, RootId, SubSeq(segs, 1, k))})

RECURSIVE FolderAt(_, _, _)
\* The id of the folder of S that segs leads to from parentId.
FolderAt(S, parentId, segs) ==
    IF Len(segs) = 0 THEN parentId
    ELSE FolderAt(S, (CHOOSE o \in Matches(S, parentId, segs[1], TRUE) : TRUE).id,
                  Tail(segs))

\* C6 as claimed: createFolderIfNotExists(p) with no folder at p = s1/.../sn
\* and s1..sk the longest existing prefix succeeds with exactly n-k create
\* calls, one per missing segment, top-down, each under the folder of the
\* segment before it, and returns the descriptor created for sn.
C6_CreatesMissingSuffix ==
    LET segs == Split(call[1].path)
        n == Len(segs)
        k == ExistingPrefix(pre[1], segs)
        cs == Creates(1)
    IN  (/\ Calls("createFolderIfNotExists")
         /\ Finished(1)
         /\ AllOk(1)
         /\ WellFormed(call[1].path)
         /\ call[1].path # <<".">>
         /\ NoDuplicates(pre[1])
         /\ k < n)
        => /\ ret[1].kind = "val"
           /\ Len(cs) = n - k
           /\ \A j \in 1..Len(cs) :
                 /\ cs[j].name = segs[k + j]
                 /\ cs[j].folderOnly
                 /\ cs[j].parent = IF j = 1 THEN FolderAt(pre[1], RootId, SubSeq(segs, 1, k))
                                   ELSE cs[j - 1].files[1]
           /\ ret[1].val.id = cs[Len(cs)].files[1]

\* C7 as claimed: when the lookup of createFolderIfNotExists fails in a
\* remote get or list call, the operation ends with that error and no create
\* call is issued.
C7_RemoteFailurePropagates ==
    (/\ Calls("createFolderIfNotExists")
     /\ WellFormed(call[1].path)
     /\ call[1].path # <<".">>) =>
        \A i \in 1..Len(CurLog(1)) :
            RemoteFailedAt(i) =>
                /\ i = Len(CurLog(1))
                /\ Len(Creates(1)) = 0
                /\ Finished(1) => ret[1] = RemoteError

\* The creates of files among the creates of caller 1's call.
Uploads == SelectSeq(Creates(1), LAMBDA e : ~e.folderOnly)

\* C8 as claimed: uploadFileIfNotExists whose lookup finds an object at p
\* uploads nothing and returns that object; when the lookup reports not found
\* it succeeds with exactly one file create.
C8_UploadsOnlyWhenMissing ==
    (Calls("uploadFileIfNotExists") /\ Finished(1)) =>
        /\ Found1 =>
              /\ Len(Uploads) = 0
              /\ ret[1].kind = "val"
              /\ ret[1].val.id = WalkedTo
        /\ (/\ AllOk(1)
            /\ WellFormed(call[1].path)
            /\ call[1].path # <<".">>
            /\ \E i \in 1..Len(CurLog(1)) : NotFoundAt(i)) =>
              /\ ret[1].kind = "val"
              /\ Len(Uploads) = 1

\* ------------------------------------------------------------------ C9

\* C9 as claimed: createFolder(p) followed by getFolder(p), no remote call
\* failing and nobody else acting, succeeds twice and getFolder returns the
\* id that createFolder returned.  (Stated where no folder is at p and no
\* name is taken twice, so that the folder created is the only one at p.)
C9_CreateThenResolve ==
    (/\ Len(hist[1]) = 1
     /\ Calls("getFolder")
     /\ Finished(1)
     /\ WellFormed(call[1].path)
     /\ call[1].path # <<".">>
     /\ NoDuplicates(hist[1][1].pre)
     /\ ~Resolvable(hist[1][1].pre, RootId, Split(call[1].path))
     /\ NoFailure)
    => /\ hist[1][1].ret.kind = "val"
       /\ ret[1].kind = "val"
       /\ ret[1].val.id = hist[1][1].ret.val.id

\* ------------------------------------------------------------------ C10

\* The places in the log where caller c's lookup was answered "no match".
Misses(c) == {i \in 1..Len(log) : /\ log[i].c = c
                                  /\ log[i].op = "list"
                                  /\ log[i].ok
                                  /\ Len(log[i].files) = 0}

CreatesAt == {i \in 1..Len(log) : log[i].op = "create" /\ log[i].ok}

\* Both callers' lookups were answered "not found" before any create was applied.
BothMissedFirst ==
    \A c \in Callers :
        \E i \in Misses(c) : \A j \in CreatesAt : i < j

\* Two folders that are not trashed carry the same name under the same parent.
DuplicateFolders ==
    \E o, q \in objs :
        /\ o # q
        /\ o.name = q.name /\ o.parent = q.parent
        /\ o.folder /\ q.folder
        /\ ~o.trashed /\ ~q.trashed
        /\ o \notin pre[1] /\ q \notin pre[1]

\* C10 as claimed: two concurrent createFolderIfNotExists calls for the same
\* missing path whose lookups both see "not found" before either create is
\* applied leave two folders of the same name under the same parent.
C10_RaceDuplicates ==
    (/\ \A c \in Callers : call[c].fn = "createFolderIfNotExists" /\ Finished(c)
     /\ WellFormed(call[1].path)
     /\ call[1].path # <<".">>
     /\ NoFailure
     /\ BothMissedFirst)
    => DuplicateFolders

\* ------------------------------------------------------------------ C11

\* C11: createFolder(p) makes no existence check on the last segment of p:
\* when the lookup of dirname(p) finds the parent folder and the remote calls
\* answer, exactly one create call is issued, for a folder named basename(p)
\* under the folder the lookup ended at, the namespace gains exactly that
\* object, and when a folder of that name was already there two folders of
\* that name are under that parent afterwards.
C11_CreateFolderNeverChecksChild ==
    (Calls("createFolder") /\ Finished(1) /\ Found1) =>
        LET p == call[1].path
            cs == Creates(1)
            before == Matches(pre[1], WalkedTo, basename(p), TRUE)
            after == Matches(objs, WalkedTo, basename(p), TRUE)
        IN  /\ Len(cs) = 1
            /\ cs[1].name = basename(p)
            /\ cs[1].folderOnly
            /\ cs[1].parent = WalkedTo
            /\ (/\ NoDuplicates(pre[1])
                /\ WellFormed(dirname(p))
                /\ dirname(p) \notin {<<".">>, <<"/">>})
               => cs[1].parent = FolderAt(pre[1], RootId, Split(dirname(p)))
            /\ dirname(p) \in {<<".">>, <<"/">>} => cs[1].parent = RootId
            /\ objs = pre[1] \cup {Obj(cs[1].files[1], basename(p), WalkedTo, TRUE, FALSE)}
            /\ cs[1].files[1] \notin {o.id : o \in pre[1]}
            /\ Cardinality(after) = Cardinality(before) + 1
            /\ before # {} => Cardinality(after) >= 2

\* createFolder("a/b") has created a second folder "b" in the folder "a".
C11_Witness ==
    /\ Calls("createFolder")
    /\ call[1].path = <<"a", "/", "b">>
    /\ Finished(1)
    /\ Found1
    /\ Len(Creates(1)) = 1
    /\ Cardinality(Matches(pre[1], WalkedTo, <<"b">>, TRUE)) = 1
    /\ Cardinality(Matches(objs, WalkedTo, <<"b">>, TRUE)) = 2

\* ------------------------------------------------------------------ C12

\* The list queries of caller 1's call that carry the folder filter.
FolderLists == SelectSeq(Lists(1), LAMBDA e : e.folderOnly)

\* The list queries of caller 1's call that carry no folder filter.
FileLists == SelectSeq(Lists(1), LAMBDA e : ~e.folderOnly)

\* The id the folder walk of caller 1's call ended at.
DirId == IF Len(FolderLists) = 0 THEN RootId
         ELSE FolderLists[Len(FolderLists)].files[1]

\* The segments getFolder walks for the folder path d.
WalkSegs(d) == IF d \in {<<".">>, <<"/">>} THEN <<>> ELSE Split(d)

\* Entry e says that the folder walk failed: a get or a filtered list query
\* that failed or answered no match.
WalkFailed(e) ==
    \/ e.op = "get" /\ ~e.ok
    \/ e.op = "list" /\ e.folderOnly /\ (~e.ok \/ Len(e.files) = 0)

\* C12: getFile(p) resolves dirname(p) as a folder and then issues exactly
\* one list query for basename(p) under that folder, without the folder
\* filter; no match ends with "File <p> not found", several matches return
\* the first and print one warning, and when the folder walk fails no file
\* query is issued.
C12_GetFileListsOnceUnderParent ==
    Calls("getFile") =>
        LET p == call[1].path
            l == CurLog(1)
            segs == WalkSegs(dirname(p))
        IN  /\ Len(FileLists) <= 1
            /\ Len(FolderLists) <= Len(segs)
            /\ \A i \in 1..Len(FolderLists) : FolderLists[i].name = segs[i]
            /\ \A i \in 1..Len(l) :
                  (l[i].op = "list" /\ ~l[i].folderOnly) =>
                      /\ \A j \in 1..(i - 1) : ~WalkFailed(l[j]) /\ l[j].ok
                      /\ l[i].name = basename(p)
                      /\ l[i].parent = DirId
                      /\ Finished(1)
                      /\ ret[1] = IF ~l[i].ok THEN RemoteError
                                  ELSE IF Len(l[i].files) = 0 THEN NotFound("File", p)
                                  ELSE Val(CHOOSE o \in pre[1] : o.id = l[i].files[1])
                      /\ IF l[i].ok /\ Len(l[i].files) > 1
                         THEN /\ Len(l) = i + 1
                              /\ l[i + 1].op = "warn"
                              /\ l[i + 1].files = l[i].files
                         ELSE Len(l) = i
            /\ (\E i \in 1..Len(l) : WalkFailed(l[i])) =>
                  /\ Len(FileLists) = 0
                  /\ ret[1].kind = "err"
                  /\ WalkFailed(l[Len(l)])
            /\ (Finished(1) /\ \A i \in 1..Len(l) : ~WalkFailed(l[i])) =>
                  Len(FileLists) = 1
            /\ Len(Creates(1)) = 0

\* getFile("a/b") met a folder "b" and a file "b" in "a": it returned the
\* first of the two and printed one warning.
C12_Witness ==
    /\ Calls("getFile")
    /\ call[1].path = <<"a", "/", "b">>
    /\ Finished(1)
    /\ Len(FileLists) = 1
    /\ Len(FileLists[1].files) = 2
    /\ ret[1].kind = "val"
    /\ ret[1].val.id = FileLists[1].files[1]
    /\ Len(SelectSeq(Warnings(1), LAMBDA e : ~e.folderOnly)) = 1

\* getFile("b/a") met no folder "b": the file query was never issued.
C12_WitnessNoParent ==
    /\ Calls("getFile")
    /\ call[1].path = <<"b", "/", "a">>
    /\ Finished(1)
    /\ ret[1] = NotFound("Folder", <<"b">>)
    /\ Len(FileLists) = 0

\* ------------------------------------------------------------------ C13

\* C13 as claimed: when the lookup of uploadFileIfNotExists fails in a remote
\* get or list call, the operation ends with that error: the failed call is
\* its last remote call (nothing is retried) and no file and no folder is
\* created.
C13_UploadLookupFailurePropagates ==
    (/\ Calls("uploadFileIfNotExists")
     /\ WellFormed(call[1].path)
     /\ call[1].path # <<".">>) =>
        \A i \in 1..Len(CurLog(1)) :
            RemoteFailedAt(i) =>
                /\ i = Len(CurLog(1))
                /\ Len(Creates(1)) = 0
                /\ objs = pre[1]
                /\ Finished(1) => ret[1] = RemoteError

\* ------------------------------------------------------------------ C14

\* The creates of folders among the creates of caller 1's call.
FolderCreates == SelectSeq(Creates(1), LAMBDA e : e.folderOnly)

\* The folder path d names the root or a chain of names.
RootOrWellFormed(d) == d \in {<<".">>, <<"/">>} \/ WellFormed(d)

\* C14 as claimed: uploadFile(local, uploadPath), every remote call
\* answering, creates the missing folders of dirname(uploadPath) and no
\* others, and then issues exactly one file create, named basename(local),
\* under the folder at dirname(uploadPath); it returns the object created.
C14_UploadCreatesChainThenFile ==
    LET d == dirname(call[1].path)
        segs == WalkSegs(d)
        n == Len(segs)
        k == ExistingPrefix(pre[1], segs)
    IN  (/\ Calls("uploadFile")
         /\ Finished(1)
         /\ AllOk(1)
         /\ RootOrWellFormed(d)
         /\ NoDuplicates(pre[1]))
        => /\ ret[1].kind = "val"
           /\ Len(Uploads) = 1
           /\ Uploads[1].name = basename(call[1].local)
           /\ Len(FolderCreates) = n - k
           /\ Uploads[1].parent = IF k = n THEN FolderAt(pre[1], RootId, segs)
                                  ELSE FolderCreates[n - k].files[1]
           /\ ret[1].val.id = Uploads[1].files[1]

\* ------------------------------------------------------------------ C15

\* The walk of caller 1's getFolder has come to segment i: the i-1 segments
\* before it were listed and each had a match.
ReachedSegment(i) ==
    /\ Len(Lists(1)) >= i - 1
    /\ \A j \in 1..(i - 1) : Lists(1)[j].ok /\ Len(Lists(1)[j].files) > 0

\* The empty segment at position i is listed with the empty name, and the
\* walk ends with "Folder  not found" when the query has no match.
EmptySegmentQueried(i) ==
    /\ Len(Lists(1)) >= i
    /\ Lists(1)[i].name = <<>>
    /\ Lists(1)[i].folderOnly
    /\ (Lists(1)[i].ok /\ Len(Lists(1)[i].files) = 0) =>
          /\ Len(Lists(1)) = i
          /\ ret[1] = NotFound("Folder", <<>>)

\* C15 as claimed: getFolder on a path with an empty segment (doubled,
\* leading or trailing separator) lists that segment with the empty name
\* when the walk comes to it, and fails with not-found when the query has no
\* match.
C15_EmptySegmentIsQueried ==
    (/\ Calls("getFolder")
     /\ call[1].path \notin {<<".">>, <<"/">>}
     /\ \E j \in 1..Len(call[1].path) : call[1].path[j] = Sep
     /\ Finished(1)
     /\ \A j \in 1..Len(CurLog(1)) : CurLog(1)[j].op = "get" => CurLog(1)[j].ok) =>
        LET segs == Split(call[1].path) IN
        \A i \in 1..Len(segs) :
            (segs[i] = <<>> /\ ReachedSegment(i)) => EmptySegmentQueried(i)

\* ------------------------------------------------------------------ C16

\* The remote calls that a call on a path of n segments needs when every
\* folder is looked up and created as designed: the lookup of the path
\* (n + 1 calls), the lookups of its n prefixes down to the root, the n
\* creates, and the file query and the file create of an upload.
RemoteCallBound(n) == ((n + 1) * (n + 2)) \div 2 + 2 * n + 2

\* The remote calls of caller 1's call.
RemoteCalls == SelectSeq(CurLog(1), LAMBDA e : e.op # "warn")

\* C16 as claimed: every exported operation on a finite path ends after
\* finitely many remote calls when every remote call answers, also when the
\* get of the root fails on every attempt: the recursion createFolder ->
\* createFolderIfNotExists(dirname) reaches the root and stops, so the
\* remote calls of one call stay within the bound of its path.
C16_FinitelyManyRemoteCalls ==
    (~Idle(1) /\ WellFormed(call[1].path)) =>
        Len(RemoteCalls) <= RemoteCallBound(Len(Split(call[1].path)))

\* ------------------------------------------------------------------ C17

\* The file creates that succeeded in the n-th call of caller 1.
UploadsOf(n) ==
    SelectSeq(log, LAMBDA e : e.c = 1 /\ e.n = n /\ e.op = "create" /\ ~e.folderOnly /\ e.ok)

\* C17 as claimed: uploadFileIfNotExists(local, p) called twice in sequence,
\* nobody else acting and every remote call answering with success: when the
\* first call uploaded, the second finds the object and uploads nothing, so
\* one file create is issued in all and one created file exists.  (Stated
\* where no name is taken twice, so that both lookups walk the same folders.)
C17_SecondUploadFindsTheFirst ==
    (/\ Len(hist[1]) = 1
     /\ Calls("uploadFileIfNotExists")
     /\ Finished(1)
     /\ WellFormed(call[1].path)
     /\ call[1].path # <<".">>
     /\ NoDuplicates(hist[1][1].pre)
     /\ NoFailure
     /\ Len(UploadsOf(1)) = 1)
    => /\ Len(UploadsOf(2)) = 0
       /\ ret[1].kind = "val"
       /\ ret[1].val.id = UploadsOf(1)[1].files[1]
       /\ Cardinality({o \in objs \ hist[1][1].pre : ~o.folder}) = 1

\* ------------------------------------------------------------------ C18

\* The remote calls and warnings of the n-th call of caller 1.
LogOf(n) == SelectSeq(log, LAMBDA e : e.c = 1 /\ e.n = n)

\* What entry e asked the service, and what the service answered.
Query(e) == [op |-> e.op, parent |-> e.parent, name |-> e.name, folderOnly |-> e.folderOnly]

Answer(e) == [files |-> e.files, ok |-> e.ok]

Min(a, b) == IF a <= b THEN a ELSE b

\* The service answered the two calls alike: the same query at the same
\* position got the same answer.
SameAnswers ==
    \A i \in 1..Min(Len(LogOf(1)), Len(LogOf(2))) :
        Query(LogOf(1)[i]) = Query(LogOf(2)[i]) => Answer(LogOf(1)[i]) = Answer(LogOf(2)[i])

\* C18 as claimed: getFolder of the async variant and getFolder of the
\* legacy variant, called on the same path over the same remote namespace
\* and answered alike, issue the same remote calls in the same order and
\* end with the same outcome.
C18_VariantsAgree ==
    (/\ Len(hist[1]) = 1
     /\ Finished(1)
     /\ SameAnswers)
    => /\ Len(LogOf(1)) = Len(LogOf(2))
       /\ \A i \in 1..Min(Len(LogOf(1)), Len(LogOf(2))) :
             Query(LogOf(1)[i]) = Query(LogOf(2)[i])
       /\ ret[1] = hist[1][1].ret

\* ------------------------------------------------------------------ C19

Resolves == {"getRootFolder", "getFolder", "getFile"}

\* C19: getRootFolder, getFolder and getFile issue get and list calls only,
\* never a create call: the remote namespace is as it was when the call was
\* made, at every step of the call and whatever its outcome.
C19_ResolveIsReadOnly ==
    call[1].fn \in Resolves =>
        /\ \A i \in 1..Len(CurLog(1)) : CurLog(1)[i].op \in {"get", "list", "warn"}
        /\ Len(Creates(1)) = 0
        /\ objs = pre[1]
        /\ nextId = FirstFreeId
        /\ Finished(1) => ret[1].kind \in {"val", "err"}

\* getFile("a/b") has failed in its file query after two remote calls that
\* answered, over a namespace that holds objects.
C19_Witness ==
    /\ Calls("getFile")
    /\ call[1].path = <<"a", "/", "b">>
    /\ Finished(1)
    /\ ret[1] = RemoteError
    /\ Len(CurLog(1)) = 3
    /\ objs # {}
    /\ objs = pre[1]

=============================================================================
